---- MODULE Spec2Model ----
(***************************************************************************)
(* Model of src/src/components/ISOToolsSectionClient.jsx: a React function *)
(* component with three useState cells (data, loading, error), one         *)
(* useEffect with an empty dependency list that starts the async routine   *)
(* fetchData, and a render function that is a chain of early returns.      *)
(***************************************************************************)
EXTENDS Integers, Sequences, FiniteSets, TLC

\* Longest daily_news array the network may deliver.
MaxLen == 3
\* Most fetchData invocations one mount may have started (the code starts one).
MaxTasks == 2

(***************************************************************************)
(* JavaScript values.  Every value is a record of the same shape; t is the *)
(* typeof-like tag.  Only the field that belongs to the tag is meaningful. *)
(***************************************************************************)
JNull == [t |-> "null", items |-> <<>>, str |-> "", num |-> 0]
JUndefined == [t |-> "undefined", items |-> <<>>, str |-> "", num |-> 0]
JStr(s) == [t |-> "string", items |-> <<>>, str |-> s, num |-> 0]
JNum(n) == [t |-> "number", items |-> <<>>, str |-> "", num |-> n]
JBool(b) == [t |-> "boolean", items |-> <<>>, str |-> "", num |-> IF b THEN 1 ELSE 0]
\* A plain non-empty object without a length property, e.g. {"a": 1}.
JObj == [t |-> "object", items |-> <<>>, str |-> "", num |-> 0]
JArr(s) == [t |-> "array", items |-> s, str |-> "", num |-> 0]

\* ToBoolean, as used by ||, ! and if.
Truthy(v) ==
  CASE v.t = "null" -> FALSE
    [] v.t = "undefined" -> FALSE
    [] v.t = "string" -> v.str # ""
    [] v.t = "number" -> v.num # 0
    [] v.t = "boolean" -> v.num = 1
    [] OTHER -> TRUE

IsArray(v) == v.t = "array"

\* v.length === 0 : length is a number only for arrays and strings.
LengthIsZero(v) ==
  CASE v.t = "array" -> Len(v.items) = 0
    [] v.t = "string" -> Len(v.str) = 0
    [] OTHER -> FALSE

\* The fixed user-visible message of the catch block.
ErrorMessage == "No se pudieron cargar las noticias de ISOTools."
\* The message of the Error thrown for a response that is not ok.
ThrownMessage == "No se pudo cargar el archivo remoto"

(***************************************************************************)
(* Articles.  An id is a JSON scalar compared with ===, so the number 1,   *)
(* the string "1" and a missing id (undefined) are three different ids;    *)
(* they are tagged strings here and === is equality of the tags.           *)
(***************************************************************************)
IdValues == {"number:1", "string:1", "undefined"}
Titles == {"A", "B"}
Articles == [id : IdValues, title : Titles]

RECURSIVE SeqsUpTo(_, _)
SeqsUpTo(S, n) ==
  IF n = 0 THEN {<<>>}
  ELSE LET shorter == SeqsUpTo(S, n - 1)
       IN shorter \cup {Append(s, x) : s \in {q \in shorter : Len(q) = n - 1}, x \in S}

ArticleSeqs == SeqsUpTo(Articles, MaxLen)

\* Values the daily_news field may hold.
DailyNewsValues ==
  {JArr(s) : s \in ArticleSeqs}
    \cup {JStr(""), JStr("abc"), JObj, JNull, JNum(0), JNum(5), JBool(FALSE), JBool(TRUE)}

(***************************************************************************)
(* Response bodies.  parseable = FALSE is text that JSON.parse rejects.    *)
(* top is the type of the parsed top-level value; has tells whether the    *)
(* top-level object owns a daily_news field, whose value is daily_news.    *)
(***************************************************************************)
Body(p, top, has, dn) == [parseable |-> p, top |-> top, has |-> has, daily_news |-> dn]
Malformed == Body(FALSE, "none", FALSE, JUndefined)
Bodies ==
  {Malformed, Body(TRUE, "null", FALSE, JUndefined), Body(TRUE, "number", FALSE, JUndefined),
   Body(TRUE, "object", FALSE, JUndefined)}
    \cup {Body(TRUE, "object", TRUE, v) : v \in DailyNewsValues}

NoResponse == [status |-> "none", ok |-> FALSE, body |-> Malformed]
Rejected == [status |-> "rejected", ok |-> FALSE, body |-> Malformed]
Resolved(ok, body) == [status |-> "resolved", ok |-> ok, body |-> body]

\* json.daily_news throws a TypeError when json is null.
PropertyAccessThrows(body) == body.top = "null"

\* json.daily_news : undefined unless the object owns the field.
GetDailyNews(body) ==
  IF body.top = "object" /\ body.has THEN body.daily_news ELSE JUndefined

\* Mutant of DailyNewsOrEmpty: the "|| []" fallback is missing.
DailyNewsNoFallback(body) == GetDailyNews(body)

\* json.daily_news || []
DailyNewsOrEmpty(body) ==
  IF Truthy(GetDailyNews(body)) THEN GetDailyNews(body) ELSE JArr(<<>>)

(***************************************************************************)
(* Deduplication: data.filter((item, idx, arr) =>                          *)
(*                  arr.findIndex(a => a.id === item.id) === idx)          *)
(* Indices are 1-based here; "not found" is 0.                             *)
(***************************************************************************)
RECURSIVE FindIndexFrom(_, _, _)
FindIndexFrom(arr, id, k) ==
  IF k > Len(arr) THEN 0
  ELSE IF arr[k].id = id THEN k
  ELSE FindIndexFrom(arr, id, k + 1)

RECURSIVE FindLastIndexFrom(_, _, _)
FindLastIndexFrom(arr, id, k) ==
  IF k = 0 THEN 0
  ELSE IF arr[k].id = id THEN k
  ELSE FindLastIndexFrom(arr, id, k - 1)

\* Mutant of FindIndex: scans from the end (findLastIndex).
FindLastIndex(arr, id) == FindLastIndexFrom(arr, id, Len(arr))

FindIndex(arr, id) == FindIndexFrom(arr, id, 1)

RECURSIVE FilterFrom(_, _)
FilterFrom(arr, idx) ==
  IF idx > Len(arr) THEN <<>>
  ELSE IF FindIndex(arr, arr[idx].id) = idx
       THEN <<arr[idx]>> \o FilterFrom(arr, idx + 1)
       ELSE FilterFrom(arr, idx + 1)

UniqueArticles(d) == IF IsArray(d) THEN FilterFrom(d.items, 1) ELSE <<>>

(***************************************************************************)
(* The render function: the chain of early returns of lines 25-76.  The    *)
(* output is the kind of section returned, its message and its cards.      *)
(***************************************************************************)
View(kind, msg, cards) == [kind |-> kind, msg |-> msg, cards |-> cards]
NoView == View("none", "", <<>>)

Render(d, l, e) ==
  IF l THEN View("loading", "Cargando noticias ISOTools...", <<>>)
  ELSE IF Truthy(e) THEN View("error", e.str, <<>>)
  ELSE IF ~Truthy(d) \/ LengthIsZero(d) THEN View("empty", "No hay noticias disponibles.", <<>>)
  ELSE View("grid", "", UniqueArticles(d))

\* Mutant of EffectDue: useEffect without a dependency list runs after every commit.
EffectDueNoDeps(firstCommit) == TRUE

\* useEffect(..., []) : the effect is due after the mount commit only.
EffectDue(firstCommit) == firstCommit

VARIABLES
  data,          \* useState(null)
  loading,       \* useState(true)
  error,         \* useState(null)
  mounted,       \* the component instance is mounted
  effectPending, \* the passive effect is scheduled and has not run
  tasks,         \* the fetchData invocations started: [pc, resp]
  view,          \* the output of the last committed render
  setterCalls,   \* the state setters called so far, in order
  lateUpdates    \* setter calls made after the unmount

vars == <<data, loading, error, mounted, effectPending, tasks, view, setterCalls, lateUpdates>>


Init ==
  /\ data = JNull
  /\ loading = TRUE
  /\ error = JNull
  /\ mounted = TRUE
  /\ effectPending = EffectDue(TRUE)
  /\ tasks = <<>>
  /\ view = Render(JNull, TRUE, JNull)
  /\ setterCalls = <<>>
  /\ lateUpdates = 0

Task(pc, resp) == [pc |-> pc, resp |-> resp]

\* A state setter is called: the cell is written; a mounted component re-renders
\* (and its effects are re-evaluated against their dependency lists); for an
\* unmounted one nothing is rendered and the call is counted as a late update.
\* Batching the two setter calls of one resumption into one render changes
\* nothing observable: the render skipped is one made while loading is true.
CallSetter(name, d, l, e) ==
  /\ data' = d
  /\ loading' = l
  /\ error' = e
  /\ setterCalls' = Append(setterCalls, name)
  /\ view' = IF mounted THEN Render(d, l, e) ELSE view
  /\ effectPending' = IF mounted THEN effectPending \/ EffectDue(FALSE) ELSE effectPending
  /\ lateUpdates' = IF mounted THEN lateUpdates ELSE lateUpdates + 1
  /\ UNCHANGED mounted

\* Mutant of RunEffect: the effect body calls fetchData() twice.
RunEffectTwice ==
  /\ mounted
  /\ effectPending
  /\ Len(tasks) + 2 <= MaxTasks
  /\ tasks' = tasks \o <<Task("fetch", NoResponse), Task("fetch", NoResponse)>>
  /\ effectPending' = FALSE
  /\ UNCHANGED <<data, loading, error, mounted, view, setterCalls, lateUpdates>>

\* The effect runs: fetchData() is called and runs up to "await fetch(...)".
RunEffect ==
  /\ mounted
  /\ effectPending
  /\ Len(tasks) < MaxTasks
  /\ tasks' = Append(tasks, Task("fetch", NoResponse))
  /\ effectPending' = FALSE
  /\ UNCHANGED <<data, loading, error, mounted, view, setterCalls, lateUpdates>>

\* Mutant of AfterResponse: the "if (!response.ok) throw" line is missing.
AfterResponseNoOkCheck(ok) == "json"

\* if (!response.ok) throw ... ; otherwise go on to "await response.json()".
AfterResponse(ok) == IF ok THEN "json" ELSE "catch"

\* fetch() resolves with a response of any status and any body.
FetchResolve(i) ==
  /\ tasks[i].pc = "fetch"
  /\ \E ok \in BOOLEAN, body \in Bodies :
       tasks' = [tasks EXCEPT ![i] = Task(AfterResponse(ok), Resolved(ok, body))]
  /\ UNCHANGED <<data, loading, error, mounted, effectPending, view, setterCalls, lateUpdates>>

\* fetch() rejects: a transport error.
FetchReject(i) ==
  /\ tasks[i].pc = "fetch"
  /\ tasks' = [tasks EXCEPT ![i] = Task("catch", Rejected)]
  /\ UNCHANGED <<data, loading, error, mounted, effectPending, view, setterCalls, lateUpdates>>

\* response.json() resolves: the body was read and parsed.
JsonResolve(i) ==
  /\ tasks[i].pc = "json"
  /\ tasks[i].resp.body.parseable
  /\ tasks' = [tasks EXCEPT ![i].pc = "setData"]
  /\ UNCHANGED <<data, loading, error, mounted, effectPending, view, setterCalls, lateUpdates>>

\* response.json() rejects: the body is not JSON.
JsonReject(i) ==
  /\ tasks[i].pc = "json"
  /\ ~tasks[i].resp.body.parseable
  /\ tasks' = [tasks EXCEPT ![i].pc = "catch"]
  /\ UNCHANGED <<data, loading, error, mounted, effectPending, view, setterCalls, lateUpdates>>

\* Mutant of SetData: a statement after setData(...) throws (for instance the
\* response.ok test placed after it), so the catch block runs as well.
SetDataThenThrow(i) ==
  /\ tasks[i].pc = "setData"
  /\ ~PropertyAccessThrows(tasks[i].resp.body)
  /\ tasks' = [tasks EXCEPT ![i].pc = "catch"]
  /\ CallSetter("setData", DailyNewsOrEmpty(tasks[i].resp.body), loading, error)

\* setData(json.daily_news || []) ; the property access throws for json = null.
SetData(i) ==
  /\ tasks[i].pc = "setData"
  /\ IF PropertyAccessThrows(tasks[i].resp.body)
     THEN /\ tasks' = [tasks EXCEPT ![i].pc = "catch"]
          /\ UNCHANGED <<data, loading, error, mounted, effectPending, view, setterCalls,
                         lateUpdates>>
     ELSE /\ tasks' = [tasks EXCEPT ![i].pc = "finally"]
          /\ CallSetter("setData", DailyNewsOrEmpty(tasks[i].resp.body), loading, error)

\* Mutant of Catch: the routine has no finally block, setLoading(false) is the
\* last statement of the try block only.
CatchNoFinally(i) ==
  /\ tasks[i].pc = "catch"
  /\ tasks' = [tasks EXCEPT ![i].pc = "done"]
  /\ CallSetter("setError", data, loading, JStr(ErrorMessage))

\* Mutant of Catch: the catch block swallows the failure without setError.
CatchNoSetError(i) ==
  /\ tasks[i].pc = "catch"
  /\ tasks' = [tasks EXCEPT ![i].pc = "finally"]
  /\ UNCHANGED <<data, loading, error, mounted, effectPending, view, setterCalls, lateUpdates>>

\* Mutant of Catch: the catch block shows the message of the error it caught.
CatchShowsThrown(i) ==
  /\ tasks[i].pc = "catch"
  /\ tasks' = [tasks EXCEPT ![i].pc = "finally"]
  /\ CallSetter("setError", data, loading,
                IF tasks[i].resp.status = "resolved" /\ ~tasks[i].resp.ok
                THEN JStr(ThrownMessage) ELSE JStr(ErrorMessage))

\* catch (err) { setError('No se pudieron cargar ...') } : err is not read.
Catch(i) ==
  /\ tasks[i].pc = "catch"
  /\ tasks' = [tasks EXCEPT ![i].pc = "finally"]
  /\ CallSetter("setError", data, loading, JStr(ErrorMessage))

\* finally { setLoading(false) }
Finally(i) ==
  /\ tasks[i].pc = "finally"
  /\ tasks' = [tasks EXCEPT ![i].pc = "done"]
  /\ CallSetter("setLoading", data, FALSE, error)

\* Mutant of Unmount: the effect returns a cleanup that cancels its fetchData.
UnmountWithCleanup ==
  /\ mounted
  /\ ~effectPending
  /\ mounted' = FALSE
  /\ view' = NoView
  /\ tasks' = [i \in DOMAIN tasks |-> Task("done", tasks[i].resp)]
  /\ UNCHANGED <<data, loading, error, effectPending, setterCalls, lateUpdates>>

\* The host removes the component.  The effect returned no cleanup function, so
\* nothing is cancelled.  Passive effects of the mount commit have run by then.
Unmount ==
  /\ mounted
  /\ ~effectPending
  /\ mounted' = FALSE
  /\ view' = NoView
  /\ UNCHANGED <<data, loading, error, effectPending, tasks, setterCalls, lateUpdates>>

Next ==
  \/ RunEffect
  \/ Unmount
  \/ \E i \in DOMAIN tasks : FetchResolve(i)
  \/ \E i \in DOMAIN tasks : FetchReject(i)
  \/ \E i \in DOMAIN tasks : JsonResolve(i)
  \/ \E i \in DOMAIN tasks : JsonReject(i)
  \/ \E i \in DOMAIN tasks : SetData(i)
  \/ \E i \in DOMAIN tasks : Catch(i)
  \/ \E i \in DOMAIN tasks : Finally(i)

Spec == Init /\ [][Next]_vars

\* The synchronous continuations of fetchData run to completion once resumed
\* (the event loop runs every queued continuation); nothing is assumed of the
\* network: fetch() and response.json() may never settle.
FairSpec ==
  /\ Spec
  /\ WF_vars(RunEffect)
  /\ WF_vars(\E i \in DOMAIN tasks : SetData(i))
  /\ WF_vars(\E i \in DOMAIN tasks : Catch(i))
  /\ WF_vars(\E i \in DOMAIN tasks : Finally(i))

(***************************************************************************)
(* Vocabulary of the properties.                                           *)
(***************************************************************************)
\* The positions of a sequence whose id occurs at no earlier position.
KeptPositions(items) ==
  {i \in 1..Len(items) : \A j \in 1..(i - 1) : items[j].id # items[i].id}

KthSmallest(S, k) == CHOOSE x \in S : Cardinality({y \in S : y < x}) = k - 1

\* The subsequence at the kept positions, in the original order.
FirstOccurrences(items) ==
  [k \in 1..Cardinality(KeptPositions(items)) |-> items[KthSmallest(KeptPositions(items), k)]]

DistinctIds(items) == {items[i].id : i \in 1..Len(items)}

\* The response was a success whose body parsed to a JSON object.
GotObject(r) ==
  r.status = "resolved" /\ r.ok /\ r.body.parseable /\ r.body.top = "object"

\* The three failures of load(): a status that is no success, a transport
\* error, a success whose body is no JSON.
LoadFailed(r) ==
  \/ r.status = "rejected"
  \/ r.status = "resolved" /\ ~r.ok
  \/ r.status = "resolved" /\ r.ok /\ ~r.body.parseable

EmptyStateView == View("empty", "No hay noticias disponibles.", <<>>)

InLoading == view.kind = "loading" /\ loading
InError == view.kind = "error" /\ ~loading /\ error # JNull
InReady == view.kind \in {"empty", "grid"} /\ ~loading /\ error = JNull /\ data # JNull
ViewState ==
  IF InLoading THEN "Loading" ELSE IF InError THEN "Error" ELSE IF InReady THEN "Ready" ELSE "?"

Count(seq, x) == Cardinality({k \in 1..Len(seq) : seq[k] = x})

\* C1: after a successful load whose daily_news is a sequence of articles, the
\* cards rendered are the articles at the positions whose id occurs at no
\* earlier position, in the original order, and there are as many cards as
\* distinct ids.
C1_CardsAreFirstOccurrences ==
  \A i \in DOMAIN tasks :
    (/\ mounted
     /\ tasks[i].pc = "done"
     /\ GotObject(tasks[i].resp)
     /\ tasks[i].resp.body.has
     /\ IsArray(tasks[i].resp.body.daily_news))
    => LET items == tasks[i].resp.body.daily_news.items
       IN /\ view.cards = FirstOccurrences(items)
          /\ Len(view.cards) = Cardinality(DistinctIds(items))

\* A feed of three articles, two of them with the same id, rendered as two cards.
C1_Witness ==
  /\ mounted
  /\ tasks # <<>>
  /\ tasks[1].pc = "done"
  /\ view.kind = "grid"
  /\ Len(data.items) = 3
  /\ Len(view.cards) = 2
  /\ data.items[1].id = data.items[3].id
  /\ data.items[1].title # data.items[3].title

\* C2: every failed load (status not a success whatever the body, transport
\* error, unparseable success body) ends with the one fixed error message, no
\* data, loading cleared and the error view without cards.
C2_FailuresCollapse ==
  \A i \in DOMAIN tasks :
    (tasks[i].pc = "done" /\ LoadFailed(tasks[i].resp))
    => /\ error = JStr(ErrorMessage)
       /\ data = JNull
       /\ ~loading
       /\ mounted => view = View("error", ErrorMessage, <<>>)

\* A response that is not ok although its body is a feed with articles.
C2_Witness ==
  /\ mounted
  /\ tasks # <<>>
  /\ tasks[1].pc = "done"
  /\ tasks[1].resp.status = "resolved"
  /\ ~tasks[1].resp.ok
  /\ tasks[1].resp.body.has
  /\ IsArray(tasks[1].resp.body.daily_news)
  /\ Len(tasks[1].resp.body.daily_news.items) > 0
  /\ view.kind = "error"

\* C3: a success response that parses to an object without daily_news never
\* sets the error, and ends Ready with the empty sequence and the empty-state
\* message.
C3_AbsentFieldIsEmptyState ==
  \A i \in DOMAIN tasks :
    (GotObject(tasks[i].resp) /\ ~tasks[i].resp.body.has)
    => /\ error = JNull
       /\ Count(setterCalls, "setError") = 0
       /\ tasks[i].pc = "done"
          => /\ data = JArr(<<>>)
             /\ ~loading
             /\ mounted => view = EmptyStateView

C3_Witness ==
  /\ mounted
  /\ tasks # <<>>
  /\ tasks[1].pc = "done"
  /\ GotObject(tasks[1].resp)
  /\ ~tasks[1].resp.body.has
  /\ view = EmptyStateView

\* C4: a mounted component is in exactly one of Loading, Error, Ready; it starts
\* in Loading; the only transitions are Loading to Error and Loading to Ready;
\* once loading is cleared no state cell is written again, and data and error
\* are each written at most once.
C4_ViewStates ==
  /\ ViewState = "Loading"
  /\ [](mounted => ViewState \in {"Loading", "Error", "Ready"})
  /\ [](Count(setterCalls, "setData") + Count(setterCalls, "setError") <= 1)
  /\ [][(mounted /\ mounted')
          => \/ ViewState' = ViewState
             \/ ViewState = "Loading" /\ ViewState' \in {"Error", "Ready"}]_vars
  /\ [][~loading => UNCHANGED <<data, loading, error, setterCalls>>]_vars

C4_Witness ==
  /\ mounted
  /\ ViewState = "Ready"
  /\ view.kind = "grid"
  /\ setterCalls = <<"setData", "setLoading">>

\* A request has completed: fetch() rejected, or resolved with a status that is
\* no success, or response.json() settled.
Completed == \E i \in DOMAIN tasks : tasks[i].pc \in {"setData", "catch", "finally", "done"}
Outstanding == tasks # <<>> /\ \A i \in DOMAIN tasks : tasks[i].pc \in {"fetch", "json"}

\* C5: once the request has completed, on the success and on the failure path,
\* loading eventually becomes false; while the request is outstanding loading
\* stays true, so only a request that never completes keeps the view Loading.
C5_LoadingCleared ==
  /\ Completed ~> ~loading
  /\ [](Outstanding => loading)

C5_Witness ==
  /\ ~loading
  /\ tasks # <<>>
  /\ tasks[1].resp.status = "rejected"
  /\ setterCalls = <<"setError", "setLoading">>

\* C6: one mount issues exactly one request: none before the effect has run,
\* one ever after, whatever re-renders and failures follow, and never two in
\* flight together.
C6_OneRequestPerMount ==
  /\ Len(tasks) = IF effectPending THEN 0 ELSE 1
  /\ Cardinality({i \in DOMAIN tasks : tasks[i].pc \in {"fetch", "json"}}) <= 1

\* After a failure and the two re-renders it causes, still one request.
C6_Witness ==
  /\ mounted
  /\ Len(tasks) = 1
  /\ tasks[1].pc = "done"
  /\ LoadFailed(tasks[1].resp)
  /\ Len(setterCalls) = 2

\* C7: data and error are never both set; whenever the error is set no card is
\* rendered; the grid is shown only without an error and the error view only
\* without data.
C7_DataOrErrorNeverBoth ==
  /\ ~(data # JNull /\ error # JNull)
  /\ error # JNull => view.cards = <<>>
  /\ view.kind = "grid" => error = JNull
  /\ view.kind = "error" => data = JNull

C7_Witness ==
  /\ mounted
  /\ view.kind = "error"
  /\ tasks # <<>>
  /\ tasks[1].resp.ok
  /\ ~tasks[1].resp.body.parseable

\* C8: a daily_news that is not a sequence is rendered as the empty state: no
\* card and the text "No hay noticias disponibles.".
C8_NonSequenceIsEmptyState ==
  \A i \in DOMAIN tasks :
    (/\ mounted
     /\ tasks[i].pc = "done"
     /\ GotObject(tasks[i].resp)
     /\ tasks[i].resp.body.has
     /\ ~IsArray(tasks[i].resp.body.daily_news))
    => view = EmptyStateView

\* The line of fetchData a task stands at calls a state setter.
AtSetter(t) ==
  \/ t.pc \in {"catch", "finally"}
  \/ t.pc = "setData" /\ ~PropertyAccessThrows(t.resp.body)

\* C9: unmounting cancels nothing: the tasks are left as they are, every setter
\* line a task reaches after the unmount still calls its setter, and a task
\* that has finished has called setData or setError and then setLoading.
C9_NoCancellationOnUnmount ==
  /\ [][(mounted /\ ~mounted') => tasks' = tasks]_vars
  /\ [][\A i \in DOMAIN tasks :
          (~mounted /\ AtSetter(tasks[i]) /\ tasks'[i].pc # tasks[i].pc)
          => /\ lateUpdates' = lateUpdates + 1
             /\ Len(setterCalls') = Len(setterCalls) + 1]_vars
  /\ [](\A i \in DOMAIN tasks :
          tasks[i].pc = "done"
          => /\ Len(setterCalls) = 2
             /\ setterCalls[1] \in {"setData", "setError"}
             /\ setterCalls[2] = "setLoading")

\* Both state updates of a load were applied to an unmounted component.
C9_Witness ==
  /\ ~mounted
  /\ lateUpdates = 2
  /\ tasks # <<>>
  /\ tasks[1].pc = "done"

\* C10: loading = false implies that data or error has been set; the empty
\* state is shown only after a success response has been processed; a mounted
\* component whose loading is true shows the Loading text, whatever data and
\* error are.
C10_WriteBeforeClear ==
  /\ ~loading => (data # JNull \/ error # JNull)
  /\ view.kind = "empty"
     => \E i \in DOMAIN tasks :
          /\ tasks[i].pc = "done"
          /\ tasks[i].resp.status = "resolved"
          /\ tasks[i].resp.ok
          /\ tasks[i].resp.body.parseable
  /\ (mounted /\ loading) => view = Render(JNull, TRUE, JNull)

\* data is already written and rendered while loading is still true.
C10_Witness ==
  /\ mounted
  /\ loading
  /\ data # JNull
  /\ view.kind = "loading"

====
